---- MODULE Spec2Model ----
(***************************************************************************)
(* A model of the qutepart editor component: the quote highlighter         *)
(* (SyntaxHighlighter.py), the bookmarks (bookmarks.py), and the syntax    *)
(* selection and the line number area of the editor (__init__.py).         *)
(* Positions inside a line are 0-based, as in the Python source; blocks    *)
(* are numbered from 1 in the model and block 0 / block n+1 stand for the  *)
(* invalid block returned by previous() / next() at the document's ends.   *)
(***************************************************************************)
EXTENDS Integers, Sequences, FiniteSets, TLC

\* ------------------------------------------------------------------ bounds
MaxLen == 3
MaxLines == 3
MaxEdits == 2
NumBlocks == 4
MaxHighlighters == 4
MaxBlockCount == 101
MaxGlyphWidth == 3
PaintBlocks == 3
MaxBlockHeight == 2
MaxScrollOffset == 1
ViewHeight == 4

\* --------------------------------------------------------------- variables
VARIABLES
    doc,            \* highlighter: the text of each block
    userData,       \* highlighter: the _TextBlockUserData of each block
    blockState,     \* highlighter: currentBlockState of each block
    formats,        \* highlighter: the setFormat calls made for each block
    currentBlock,   \* highlighter: the next block to be highlighted
    edits,          \* highlighter: number of document changes so far
    marked,         \* bookmarks: the mark area's flag of each block
    cursor,         \* bookmarks: the block of the editor's text cursor
    bmOp,           \* bookmarks: the last operation and its arguments
    bmPrevMarked,   \* bookmarks: marked before the last operation
    bmPrevCursor,   \* bookmarks: cursor before the last operation
    highlighter,    \* editor: self._highlighter, 0 for None
    created,        \* editor: the syntax of every highlighter constructed
    deleted,        \* editor: the highlighters del_() was called on
    synOp,          \* editor: the last syntax call and what getSyntax gave
    synPrev,        \* editor: <<highlighter, deleted>> before the last call
    synResult,      \* editor: what the last syntax call returned
    synRaised,      \* editor: the last syntax call raised an error
    blockCount,     \* gutter: the document's blockCount()
    glyphWidth,     \* gutter: fontMetrics().width('9')
    viewportMargin, \* gutter: the left viewport margin of the editor
    blockHeight,    \* painting: the laid out height of each block
    blockVisible,   \* painting: isVisible() of each block
    firstVisible,   \* painting: firstVisibleBlock()
    offsetTop,      \* painting: top of the first visible block's geometry
    paintRect,      \* painting: <<top, bottom>> of the last event's rect
    drawn,          \* painting: the <<number, y>> of its drawText calls
    walkEnd         \* painting: the block its loop stopped at

hlVars == <<doc, userData, blockState, formats, currentBlock, edits>>

bmVars == <<marked, cursor, bmOp, bmPrevMarked, bmPrevCursor>>

synVars == <<highlighter, created, deleted, synOp, synPrev, synResult, synRaised>>

widthVars == <<blockCount, glyphWidth, viewportMargin>>

paintVars == <<blockHeight, blockVisible, firstVisible, offsetTop, paintRect,
               drawn, walkEnd>>

vars == <<hlVars, bmVars, synVars, widthVars, paintVars>>

\* ------------------------------------------------------- quote highlighter
Quote == "'"
Alphabet == {Quote, "a"}
Texts == UNION {[1..n -> Alphabet] : n \in 0..MaxLen}

\* a block without user data: userData() returns None
NoData == [has |-> FALSE, quoteIsOpened |-> FALSE]

\* _TextBlockUserData(quoteIsOpened)
TextBlockUserData(quoteIsOpened) == [has |-> TRUE, quoteIsOpened |-> quoteIsOpened]

\* text.find("'", start): the first position >= start holding a quote, or -1
find(text, start) ==
    LET hits == {i \in start..(Len(text) - 1) : text[i + 1] = Quote}
    IN  IF hits = {} THEN -1 ELSE CHOOSE i \in hits : \A j \in hits : i <= j

\* the while loop of highlightBlock and the if after it; calls is the
\* sequence of setFormat(start, count) calls made so far
RECURSIVE scanOffByOne(_, _, _, _, _)
scanOffByOne(text, index, prevIndex, quoteIsOpened, calls) ==
    IF index = -1
    THEN [quoteIsOpened |-> quoteIsOpened,
          calls |-> IF quoteIsOpened
                    THEN Append(calls, <<prevIndex, Len(text) - prevIndex>>)
                    ELSE calls]
    ELSE IF ~quoteIsOpened
         THEN scanOffByOne(text, find(text, index + 1), index, TRUE, calls)
         ELSE scanOffByOne(text, find(text, index + 1), index, FALSE,
                           Append(calls, <<prevIndex, index - prevIndex>>))

RECURSIVE scan(_, _, _, _, _)
scan(text, index, prevIndex, quoteIsOpened, calls) ==
    IF index = -1
    THEN [quoteIsOpened |-> quoteIsOpened,
          calls |-> IF quoteIsOpened
                    THEN Append(calls, <<prevIndex, Len(text) - prevIndex>>)
                    ELSE calls]
    ELSE IF ~quoteIsOpened
         THEN scan(text, find(text, index + 1), index, TRUE, calls)
         ELSE scan(text, find(text, index + 1), index, FALSE,
                   Append(calls, <<prevIndex, index - prevIndex + 1>>))

\* self.currentBlock().previous().userData() with block the current block
prevDataOfCurrent(block) == userData[block]

_prevData(block) == IF block - 1 >= 1 THEN userData[block - 1] ELSE NoData

\* highlightBlock(text) with prevData the value _prevData() returns
highlightBlockNoCarry(text, prevData) ==
    scan(text, find(text, 0), 0, FALSE, <<>>)

highlightBlock(text, prevData) ==
    LET quoteIsOpened == IF prevData.has THEN prevData.quoteIsOpened ELSE FALSE
    IN  scan(text, find(text, 0), 0, quoteIsOpened, <<>>)

\* the highlighter is called for the next block of the document
HighlightBlock ==
    /\ currentBlock <= Len(doc)
    /\ LET r == highlightBlock(doc[currentBlock], _prevData(currentBlock))
       IN  /\ formats' = [formats EXCEPT ![currentBlock] = r.calls]
           /\ userData' = [userData EXCEPT
                             ![currentBlock] = TextBlockUserData(r.quoteIsOpened)]
           /\ blockState' = [blockState EXCEPT
                               ![currentBlock] = IF r.quoteIsOpened THEN 1 ELSE 0]
    /\ currentBlock' = currentBlock + 1
    /\ UNCHANGED <<doc, edits>>
    /\ UNCHANGED <<bmVars, synVars, widthVars, paintVars>>

\* the text of a block changes: it and the blocks after it are highlighted again
SetBlockText ==
    /\ edits < MaxEdits
    /\ \E b \in 1..Len(doc), t \in Texts :
          /\ t # doc[b]
          /\ doc' = [doc EXCEPT ![b] = t]
          /\ currentBlock' = IF b < currentBlock THEN b ELSE currentBlock
    /\ edits' = edits + 1
    /\ UNCHANGED <<userData, blockState, formats>>
    /\ UNCHANGED <<bmVars, synVars, widthVars, paintVars>>

\* a block is appended to the document
AppendBlock ==
    /\ edits < MaxEdits
    /\ Len(doc) < MaxLines
    /\ \E t \in Texts : doc' = Append(doc, t)
    /\ userData' = Append(userData, NoData)
    /\ blockState' = Append(blockState, -1)
    /\ formats' = Append(formats, <<>>)
    /\ edits' = edits + 1
    /\ UNCHANGED currentBlock
    /\ UNCHANGED <<bmVars, synVars, widthVars, paintVars>>

InitHL ==
    /\ doc = <<<<>>>>
    /\ userData = <<NoData>>
    /\ blockState = <<-1>>
    /\ formats = <<<<>>>>
    /\ currentBlock = 1
    /\ edits = 0

NextHL == HighlightBlock \/ SetBlockText \/ AppendBlock

\* ------------------------------------------- claims on the quote highlighter
\* blocks highlighted since the last change of the document
Highlighted == 1..(currentBlock - 1)

\* the flag carried into block b: the flag stored by the block before it
Incoming(b) == IF b = 1 THEN FALSE ELSE userData[b - 1].quoteIsOpened

QuotePositions(t) == {i \in 0..(Len(t) - 1) : t[i + 1] = Quote}

CountQuotes(t) == Cardinality(QuotePositions(t))

Odd(n) == n % 2 = 1

\* flag f toggled n times
Toggled(f, n) == IF Odd(n) THEN ~f ELSE f

\* C1: the flag stored for a highlighted line is the incoming flag toggled
\* once per quote of the line; the first line's incoming flag is false.
C1_StoredFlagIsIncomingToggledPerQuote ==
    \A b \in Highlighted :
        /\ userData[b].has
        /\ userData[b].quoteIsOpened = Toggled(Incoming(b), CountQuotes(doc[b]))
        /\ blockState[b] = IF userData[b].quoteIsOpened THEN 1 ELSE 0

\* a line entered inside a string closes it with its only quote
C1_Witness ==
    \E b \in Highlighted :
        /\ b >= 2 /\ Incoming(b) /\ CountQuotes(doc[b]) = 1
        /\ ~userData[b].quoteIsOpened

\* is a string open just before position p of text t entered with flag f
OpenBefore(t, f, p) ==
    Toggled(f, Cardinality({q \in QuotePositions(t) : q < p}))

\* the positions of t that lie inside a quoted string, quotes included
InsideString(t, f) ==
    {p \in 0..(Len(t) - 1) : OpenBefore(t, f, p) \/ t[p + 1] = Quote}

\* the last quote before position p, or 0 when there is none
PendingStart(t, p) ==
    LET before == {q \in QuotePositions(t) : q < p}
    IN  IF before = {} THEN 0
        ELSE CHOOSE q \in before : \A r \in before : r <= q

\* the spans the line must get: one per closing quote, one when left open
ExpectedSpans(t, f) ==
    {<<PendingStart(t, q), q - PendingStart(t, q) + 1>> :
        q \in {c \in QuotePositions(t) : OpenBefore(t, f, c)}}
    \cup (IF OpenBefore(t, f, Len(t))
          THEN {<<PendingStart(t, Len(t)), Len(t) - PendingStart(t, Len(t))>>}
          ELSE {})

\* the positions a sequence of setFormat(start, count) calls colors
Colored(calls) ==
    UNION {calls[i][1]..(calls[i][1] + calls[i][2] - 1) : i \in 1..Len(calls)}

\* C2: the colored positions of a highlighted line are exactly the positions
\* inside quoted strings; every span is the one of a closing quote (from its
\* pending start through the quote) or the open-ended one after the scan,
\* and no span reaches outside the line.
C2_ColoredExactlyInsideStrings ==
    \A b \in Highlighted :
        /\ Colored(formats[b]) = InsideString(doc[b], Incoming(b))
        /\ {formats[b][i] : i \in 1..Len(formats[b])}
              = ExpectedSpans(doc[b], Incoming(b))
        /\ Len(formats[b]) = Cardinality(ExpectedSpans(doc[b], Incoming(b)))
        /\ \A i \in 1..Len(formats[b]) :
              /\ formats[b][i][1] >= 0
              /\ formats[b][i][2] >= 0
              /\ formats[b][i][1] + formats[b][i][2] <= Len(doc[b])

\* a line entered inside a string is colored up to its closing quote
C2_Witness ==
    \E b \in Highlighted :
        /\ b >= 2 /\ Incoming(b) /\ doc[b] = <<"a", Quote, "a">>
        /\ formats[b] = <<<<0, 2>>>>

RECURSIVE TotalQuotes(_)
TotalQuotes(k) == IF k = 0 THEN 0 ELSE TotalQuotes(k - 1) + CountQuotes(doc[k])

\* C3: once lines 1..n are highlighted in document order, the stored flag of
\* every line k is true exactly when lines 1..k hold an odd number of quotes,
\* also after a line's text changed and the lines from it on were redone.
C3_StoredFlagIsParityOfQuotesSoFar ==
    \A k \in Highlighted :
        userData[k].has /\ (userData[k].quoteIsOpened <=> Odd(TotalQuotes(k)))

\* line 1 starts empty, so a non-empty line 1 has been changed
C3_Witness ==
    /\ Len(doc) >= 2
    /\ currentBlock = Len(doc) + 1
    /\ doc[1] # <<>>
    /\ Odd(CountQuotes(doc[1]))
    /\ CountQuotes(doc[2]) = 0
    /\ userData[2].quoteIsOpened

\* --------------------------------------------------------------- bookmarks
Blocks == 1..NumBlocks

\* the invalid block: previous() of the first block, next() of the last
InvalidBlock == 0

isValid(block) == block \in Blocks

next(block) == IF block + 1 \in Blocks THEN block + 1 ELSE InvalidBlock

previous(block) == IF block - 1 \in Blocks THEN block - 1 ELSE InvalidBlock

\* qutepart.iterateBlocksFrom(block): block and the blocks after it, in order
RECURSIVE iterateBlocksFrom(_)
iterateBlocksFrom(block) ==
    IF isValid(block) THEN <<block>> \o iterateBlocksFrom(next(block)) ELSE <<>>

\* qutepart.iterateBlocksBackFrom(block): block and the blocks before it
RECURSIVE iterateBlocksBackFrom(_)
iterateBlocksBackFrom(block) ==
    IF isValid(block) THEN <<block>> \o iterateBlocksBackFrom(previous(block))
    ELSE <<>>

\* markArea.isBlockMarked(block)
isBlockMarked(m, block) == m[block]

\* markArea.setBlockValue(block, value)
setBlockValue(m, block, value) == [m EXCEPT ![block] = (value # 0)]

\* markArea.toggleBlockMark(block)
toggleBlockMark(m, block) == [m EXCEPT ![block] = ~m[block]]

\* Bookmarks._setBlockMarked(block, marked)
_setBlockMarked(m, block, mark) == setBlockValue(m, block, IF mark THEN 1 ELSE 0)

\* the for loop of clear over the blocks still to visit
RECURSIVE clearLoopExcludingEnd(_, _, _)
clearLoopExcludingEnd(blocks, m, endBlock) ==
    IF blocks = <<>> THEN m
    ELSE IF Head(blocks) = endBlock THEN m
         ELSE clearLoopExcludingEnd(Tail(blocks),
                                    _setBlockMarked(m, Head(blocks), FALSE), endBlock)

RECURSIVE clearLoop(_, _, _)
clearLoop(blocks, m, endBlock) ==
    IF blocks = <<>> THEN m
    ELSE LET m2 == _setBlockMarked(m, Head(blocks), FALSE)
         IN  IF Head(blocks) = endBlock THEN m2
             ELSE clearLoop(Tail(blocks), m2, endBlock)

\* the for loop of _onPrevBookmark / _onNextBookmark: the first marked block
\* of blocks, or the invalid block when the loop ends without a return
RECURSIVE firstMarked(_, _)
firstMarked(blocks, m) ==
    IF blocks = <<>> THEN InvalidBlock
    ELSE IF isBlockMarked(m, Head(blocks)) THEN Head(blocks)
         ELSE firstMarked(Tail(blocks), m)

\* every operation records what it was applied to
Record(name, a, b) ==
    /\ bmOp' = <<name, a, b>>
    /\ bmPrevMarked' = marked
    /\ bmPrevCursor' = cursor

\* Bookmarks.clear(startBlock, endBlock)
Clear ==
    /\ \E startBlock \in Blocks, endBlock \in Blocks :
          /\ marked' = clearLoop(iterateBlocksFrom(startBlock), marked, endBlock)
          /\ Record("clear", startBlock, endBlock)
    /\ UNCHANGED cursor
    /\ UNCHANGED <<hlVars, synVars, widthVars, paintVars>>

\* Bookmarks._toggleBookmark(block)
_toggleBookmarkSetsMark(block) ==
    /\ marked' = _setBlockMarked(marked, block, TRUE)
    /\ UNCHANGED cursor

_toggleBookmark(block) ==
    /\ marked' = toggleBlockMark(marked, block)
    /\ UNCHANGED cursor

\* Bookmarks._onToggleBookmark: the toggle action is triggered
OnToggleBookmark ==
    /\ _toggleBookmark(cursor)
    /\ Record("toggle", cursor, 0)
    /\ UNCHANGED <<hlVars, synVars, widthVars, paintVars>>

\* markArea.blockClicked is emitted for a block of the gutter
BlockClicked ==
    /\ \E block \in Blocks :
          /\ _toggleBookmark(block)
          /\ Record("click", block, 0)
    /\ UNCHANGED <<hlVars, synVars, widthVars, paintVars>>

\* Bookmarks._onPrevBookmark
OnPrevBookmark ==
    /\ LET found == firstMarked(iterateBlocksBackFrom(previous(cursor)), marked)
       IN  cursor' = IF isValid(found) THEN found ELSE cursor
    /\ Record("prev", 0, 0)
    /\ UNCHANGED marked
    /\ UNCHANGED <<hlVars, synVars, widthVars, paintVars>>

\* Bookmarks._onNextBookmark
OnNextBookmarkFromCursor ==
    /\ LET found == firstMarked(iterateBlocksFrom(cursor), marked)
       IN  cursor' = IF isValid(found) THEN found ELSE cursor
    /\ Record("next", 0, 0)
    /\ UNCHANGED marked
    /\ UNCHANGED <<hlVars, synVars, widthVars, paintVars>>

OnNextBookmark ==
    /\ LET found == firstMarked(iterateBlocksFrom(next(cursor)), marked)
       IN  cursor' = IF isValid(found) THEN found ELSE cursor
    /\ Record("next", 0, 0)
    /\ UNCHANGED marked
    /\ UNCHANGED <<hlVars, synVars, widthVars, paintVars>>

\* the user moves the text cursor to another block
MoveCursor ==
    /\ \E block \in Blocks : block # cursor /\ cursor' = block
    /\ Record("move", 0, 0)
    /\ UNCHANGED marked
    /\ UNCHANGED <<hlVars, synVars, widthVars, paintVars>>

InitBM ==
    /\ marked = [b \in Blocks |-> FALSE]
    /\ cursor = 1
    /\ bmOp = <<"none", 0, 0>>
    /\ bmPrevMarked = [b \in Blocks |-> FALSE]
    /\ bmPrevCursor = 1

NextBM ==
    \/ Clear
    \/ OnToggleBookmark
    \/ BlockClicked
    \/ OnPrevBookmark
    \/ OnNextBookmark
    \/ MoveCursor

\* ------------------------------------------------- claims on the bookmarks
MarkedAfter(m, c) == {b \in Blocks : b > c /\ m[b]}

MarkedBefore(m, c) == {b \in Blocks : b < c /\ m[b]}

Least(S) == CHOOSE x \in S : \A y \in S : x <= y

Greatest(S) == CHOOSE x \in S : \A y \in S : y <= x

\* C4: next-bookmark moves the cursor to the first marked line after it,
\* previous-bookmark to the nearest marked line before it; with no marked
\* line in that direction the cursor stays; no marked flag changes.
C4_NavigationFindsNearestMarkedLine ==
    /\ bmOp[1] = "next" =>
          /\ marked = bmPrevMarked
          /\ cursor = IF MarkedAfter(bmPrevMarked, bmPrevCursor) = {}
                      THEN bmPrevCursor
                      ELSE Least(MarkedAfter(bmPrevMarked, bmPrevCursor))
    /\ bmOp[1] = "prev" =>
          /\ marked = bmPrevMarked
          /\ cursor = IF MarkedBefore(bmPrevMarked, bmPrevCursor) = {}
                      THEN bmPrevCursor
                      ELSE Greatest(MarkedBefore(bmPrevMarked, bmPrevCursor))

\* next-bookmark from a marked line skipped an unmarked line, with a marked
\* line behind the cursor too
C4_Witness ==
    /\ bmOp[1] = "next"
    /\ bmPrevMarked[bmPrevCursor]
    /\ cursor > bmPrevCursor + 1
    /\ MarkedBefore(bmPrevMarked, bmPrevCursor) # {}

\* C5: toggling flips the flag of the cursor's line (a gutter click that of
\* the clicked line), leaves every other flag and the cursor alone, and a
\* second toggle of the same line restores the bookmarks.
C5_ToggleFlipsOneFlag ==
    /\ [](bmOp[1] \in {"toggle", "click"} =>
            /\ (bmOp[1] = "toggle" => bmOp[2] = bmPrevCursor)
            /\ marked[bmOp[2]] = ~bmPrevMarked[bmOp[2]]
            /\ \A b \in Blocks \ {bmOp[2]} : marked[b] = bmPrevMarked[b]
            /\ cursor = bmPrevCursor)
    /\ [][(/\ bmOp[1] \in {"toggle", "click"}
           /\ bmOp'[1] \in {"toggle", "click"}
           /\ bmOp'[2] = bmOp[2]) => marked' = bmPrevMarked]_bmVars

\* a marked line was toggled off by the toggle action away from line 1
C5_Witness ==
    /\ bmOp[1] = "toggle"
    /\ bmOp[2] > 1
    /\ bmPrevMarked[bmOp[2]]
    /\ ~marked[bmOp[2]]
    /\ \E b \in Blocks : marked[b]

\* C10 as stated: for any startBlock and endBlock, clear unmarks startBlock
\* through endBlock and changes no block before startBlock or after endBlock.
C10_ClearAnyRange ==
    bmOp[1] = "clear" =>
        /\ \A b \in Blocks : (bmOp[2] <= b /\ b <= bmOp[3]) => ~marked[b]
        /\ \A b \in Blocks : b < bmOp[2] => marked[b] = bmPrevMarked[b]
        /\ \A b \in Blocks : b > bmOp[3] => marked[b] = bmPrevMarked[b]

\* C10 amended: the same for a startBlock that is not after endBlock.
C10_ClearOrderedRange ==
    (bmOp[1] = "clear" /\ bmOp[2] <= bmOp[3]) =>
        /\ \A b \in Blocks : (bmOp[2] <= b /\ b <= bmOp[3]) => ~marked[b]
        /\ \A b \in Blocks : b < bmOp[2] => marked[b] = bmPrevMarked[b]
        /\ \A b \in Blocks : b > bmOp[3] => marked[b] = bmPrevMarked[b]

\* a range inside the document is cleared, marks on both sides of it stay
C10_Witness ==
    /\ bmOp[1] = "clear"
    /\ 1 < bmOp[2] /\ bmOp[2] < bmOp[3] /\ bmOp[3] < NumBlocks
    /\ bmPrevMarked[bmOp[2]] /\ bmPrevMarked[bmOp[3]]
    /\ marked[1] /\ marked[NumBlocks]

\* -------------------------------------------------------- syntax selection
Syntaxes == {"python", "cpp"}

\* getSyntax found nothing: None
NoSyntax == "none"

\* the highlighters that exist: constructed and not deleted
Live == {h \in 1..Len(created) : h \notin deleted}

\* highlighter.del_(): None has no such method, calling it raises
del_(h, gone) == IF h = 0 THEN <<gone, TRUE>> ELSE <<gone \cup {h}, FALSE>>

\* Qutepart.clearSyntax: the new <<_highlighter, deleted, raised>>
clearSyntaxKeepsReference ==
    IF highlighter # 0
    THEN <<highlighter, del_(highlighter, deleted)[1], del_(highlighter, deleted)[2]>>
    ELSE <<highlighter, deleted, FALSE>>

clearSyntax ==
    IF highlighter # 0
    THEN <<0, del_(highlighter, deleted)[1], del_(highlighter, deleted)[2]>>
    ELSE <<highlighter, deleted, FALSE>>

\* Qutepart.clearSyntax is called
ClearSyntax ==
    /\ highlighter' = clearSyntax[1]
    /\ deleted' = clearSyntax[2]
    /\ synRaised' = clearSyntax[3]
    /\ synResult' = "None"
    /\ synOp' = <<"clearSyntax", NoSyntax>>
    /\ synPrev' = <<highlighter, deleted>>
    /\ UNCHANGED created
    /\ UNCHANGED <<hlVars, bmVars, widthVars, paintVars>>

\* Qutepart.detectSyntax is called and getSyntax returns syntax
DetectSyntax ==
    /\ \E syntax \in Syntaxes \cup {NoSyntax} :
          /\ syntax # NoSyntax => Len(created) < MaxHighlighters
          /\ deleted' = clearSyntax[2]
          /\ synRaised' = clearSyntax[3]
          /\ IF syntax # NoSyntax
             THEN /\ created' = Append(created, syntax)
                  /\ highlighter' = Len(created) + 1
             ELSE /\ created' = created
                  /\ highlighter' = clearSyntax[1]
          /\ synOp' = <<"detectSyntax", syntax>>
    /\ synResult' = "None"
    /\ synPrev' = <<highlighter, deleted>>
    /\ UNCHANGED <<hlVars, bmVars, widthVars, paintVars>>

InitSyn ==
    /\ highlighter = 0
    /\ created = <<>>
    /\ deleted = {}
    /\ synOp = <<"none", NoSyntax>>
    /\ synPrev = <<0, {}>>
    /\ synResult = "None"
    /\ synRaised = FALSE

NextSyn == ClearSyntax \/ DetectSyntax

\* ----------------------------------------- claims on the syntax selection
\* C6: detectSyntax returns True if a syntax is detected, False otherwise.
C6_DetectSyntaxReturnsWhetherDetected ==
    synOp[1] = "detectSyntax" =>
        synResult = IF synOp[2] # NoSyntax THEN "True" ELSE "False"

\* C7: detectSyntax deletes the highlighter installed before it, found or
\* not; after a call that finds nothing and after clearSyntax there is no
\* highlighter and no error; after a call that finds a syntax the only
\* highlighter is one built for it; clearSyntax without a highlighter
\* changes nothing.
C7_AtMostOneHighlighterOfTheDetectedSyntax ==
    /\ ~synRaised
    /\ Live = IF highlighter = 0 THEN {} ELSE {highlighter}
    /\ synOp[1] = "detectSyntax" =>
          /\ synPrev[1] # 0 => synPrev[1] \in deleted
          /\ synOp[2] = NoSyntax => highlighter = 0
          /\ synOp[2] # NoSyntax =>
                /\ highlighter \in 1..Len(created)
                /\ highlighter # synPrev[1]
                /\ created[highlighter] = synOp[2]
    /\ synOp[1] = "clearSyntax" =>
          /\ highlighter = 0
          /\ synPrev[1] # 0 => synPrev[1] \in deleted
          /\ synPrev[1] = 0 => deleted = synPrev[2]

\* a call that found nothing removed an installed highlighter
C7_Witness ==
    /\ synOp = <<"detectSyntax", NoSyntax>>
    /\ synPrev[1] # 0
    /\ synPrev[1] \in deleted
    /\ Len(created) >= 2
    /\ highlighter = 0

\* -------------------------------------------------------- line number area
_LEFT_MARGIN == 3
_RIGHT_MARGIN == 3

max(a, b) == IF a >= b THEN a ELSE b

\* str(n) for n >= 0: the decimal digits of n
RECURSIVE str(_)
str(n) == IF n < 10 THEN <<n>> ELSE Append(str(n \div 10), n % 10)

\* _LineNumberArea.width with blockCount() = count and width('9') = glyph
widthWithoutRightMargin(count, glyph) ==
    _LEFT_MARGIN + glyph * Len(str(max(1, count)))

width(count, glyph) ==
    LET digits == Len(str(max(1, count)))
    IN  _LEFT_MARGIN + glyph * digits + _RIGHT_MARGIN

\* Qutepart._updateLineNumberAreaWidth, given the block count it will read
_updateLineNumberAreaWidth(count) == viewportMargin' = width(count, glyphWidth)

\* a block is inserted: blockCountChanged calls _updateLineNumberAreaWidth
InsertBlock ==
    /\ blockCount < MaxBlockCount
    /\ blockCount' = blockCount + 1
    /\ _updateLineNumberAreaWidth(blockCount + 1)
    /\ UNCHANGED glyphWidth
    /\ UNCHANGED <<hlVars, bmVars, synVars, paintVars>>

\* a block is removed: blockCountChanged calls _updateLineNumberAreaWidth
RemoveBlock ==
    /\ blockCount > 1
    /\ blockCount' = blockCount - 1
    /\ _updateLineNumberAreaWidth(blockCount - 1)
    /\ UNCHANGED glyphWidth
    /\ UNCHANGED <<hlVars, bmVars, synVars, paintVars>>

\* Qutepart.__init__: the font is set, then the margin for the empty document
InitWidth ==
    /\ blockCount = 1
    /\ glyphWidth \in 1..MaxGlyphWidth
    /\ viewportMargin = width(1, glyphWidth)

NextWidth == InsertBlock \/ RemoveBlock

\* ------------------------------------------------ claims on the gutter width
\* the number of decimal digits of n >= 1: the least d with n < 10^d
RECURSIVE Pow10(_)
Pow10(d) == IF d = 0 THEN 1 ELSE 10 * Pow10(d - 1)

RECURSIVE LeastExponentAbove(_, _)
LeastExponentAbove(n, d) ==
    IF n < Pow10(d) THEN d ELSE LeastExponentAbove(n, d + 1)

DecimalDigits(n) == LeastExponentAbove(n, 1)

\* n is 10, 100, 1000, ...
IsPowerOfTen(n) == \E d \in 1..DecimalDigits(n) : n = Pow10(d)

\* C8: the gutter width is leftMargin + g * d + rightMargin, margins 3, d the
\* decimal digits of max(1, n); 0 lines get the width of 1..9 lines, the width
\* never decreases as n grows and increases exactly at a power of ten.
C8_WidthFollowsDigitCount ==
    /\ viewportMargin = width(blockCount, glyphWidth)
    /\ \A n \in 0..blockCount :
          /\ width(n, glyphWidth)
                = 3 + glyphWidth * DecimalDigits(IF n >= 1 THEN n ELSE 1) + 3
          /\ n <= 9 => width(0, glyphWidth) = width(n, glyphWidth)
          /\ n >= 1 => width(n - 1, glyphWidth) <= width(n, glyphWidth)
          /\ n >= 1 => (width(n - 1, glyphWidth) < width(n, glyphWidth)
                          <=> IsPowerOfTen(n))

\* the document grew past 100 lines
C8_Witness ==
    /\ blockCount = 100
    /\ glyphWidth = 2
    /\ viewportMargin = 12

\* ------------------------------------------- line number area: paintEvent
PaintedBlocks == 1..PaintBlocks

\* no paint event since the layout last changed
NoRect == <<>>

isValidBlock(block) == block \in PaintedBlocks

nextBlock(block) == IF block + 1 \in PaintedBlocks THEN block + 1 ELSE InvalidBlock

\* int(self._qpart.blockBoundingRect(block).height()): a hidden block and
\* the invalid block have an empty rectangle
blockBoundingRectHeight(block) ==
    IF isValidBlock(block) /\ blockVisible[block] THEN blockHeight[block] ELSE 0

\* the while loop of paintEvent; rect is <<top, bottom>> of event.rect()
RECURSIVE paintLoopCountingVisible(_, _, _, _, _, _)
paintLoopCountingVisible(block, blockNumber, top, bottom, rect, calls) ==
    IF isValidBlock(block) /\ top <= rect[2]
    THEN LET draws == blockVisible[block] /\ bottom >= rect[1]
             after == nextBlock(block)
         IN  paintLoopCountingVisible(after,
                    IF blockVisible[block] THEN blockNumber + 1 ELSE blockNumber,
                    bottom, bottom + blockBoundingRectHeight(after), rect,
                    IF draws THEN calls \cup {<<blockNumber + 1, top>>} ELSE calls)
    ELSE [drawn |-> calls, block |-> block]

RECURSIVE paintLoop(_, _, _, _, _, _)
paintLoop(block, blockNumber, top, bottom, rect, calls) ==
    IF isValidBlock(block) /\ top <= rect[2]
    THEN LET draws == blockVisible[block] /\ bottom >= rect[1]
             after == nextBlock(block)
         IN  paintLoop(after, blockNumber + 1,
                       bottom, bottom + blockBoundingRectHeight(after), rect,
                       IF draws THEN calls \cup {<<blockNumber + 1, top>>} ELSE calls)
    ELSE [drawn |-> calls, block |-> block]

\* _LineNumberArea.paintEvent(event) with event.rect() = rect
paintEvent(rect) ==
    LET block == firstVisible
        blockNumber == block - 1
        top == offsetTop
        bottom == top + blockBoundingRectHeight(block)
    IN  paintLoop(block, blockNumber, top, bottom, rect, {})

\* the gutter gets a paint event for a rectangle of the widget
PaintEvent ==
    /\ \E top \in 0..(ViewHeight - 1) : \E bottom \in top..(ViewHeight - 1) :
          /\ paintRect' = <<top, bottom>>
          /\ drawn' = paintEvent(<<top, bottom>>).drawn
          /\ walkEnd' = paintEvent(<<top, bottom>>).block
    /\ UNCHANGED <<blockHeight, blockVisible, firstVisible, offsetTop>>
    /\ UNCHANGED <<hlVars, bmVars, synVars, widthVars>>

\* the layout changed: what was painted is out of date
Invalidate ==
    /\ paintRect' = NoRect
    /\ drawn' = {}
    /\ walkEnd' = InvalidBlock

\* a block is hidden or shown
SetBlockVisible ==
    /\ \E block \in PaintedBlocks :
          blockVisible' = [blockVisible EXCEPT ![block] = ~blockVisible[block]]
    /\ Invalidate
    /\ UNCHANGED <<blockHeight, firstVisible, offsetTop>>
    /\ UNCHANGED <<hlVars, bmVars, synVars, widthVars>>

\* the editor is scrolled
Scroll ==
    /\ \E block \in PaintedBlocks, offset \in 0..MaxScrollOffset :
          /\ <<block, -offset>> # <<firstVisible, offsetTop>>
          /\ firstVisible' = block
          /\ offsetTop' = -offset
    /\ Invalidate
    /\ UNCHANGED <<blockHeight, blockVisible>>
    /\ UNCHANGED <<hlVars, bmVars, synVars, widthVars>>

InitPaint ==
    /\ blockHeight \in [PaintedBlocks -> 1..MaxBlockHeight]
    /\ blockVisible = [b \in PaintedBlocks |-> TRUE]
    /\ firstVisible = 1
    /\ offsetTop = 0
    /\ paintRect = NoRect
    /\ drawn = {}
    /\ walkEnd = InvalidBlock

NextPaint == PaintEvent \/ SetBlockVisible \/ Scroll

\* ---------------------------------------------------- claims on paintEvent
\* the height a block takes in the gutter
Extent(b) == IF blockVisible[b] THEN blockHeight[b] ELSE 0

\* the top of block b, a block at or after the first visible block
RECURSIVE TopOf(_)
TopOf(b) == IF b = firstVisible THEN offsetTop ELSE TopOf(b - 1) + Extent(b - 1)

\* the blocks the walk can meet
Walked == {b \in PaintedBlocks : b >= firstVisible}

\* the visible lines whose vertical extent, top to bottom, meets the rect
Intersecting ==
    {b \in Walked : /\ blockVisible[b]
                    /\ TopOf(b) <= paintRect[2]
                    /\ TopOf(b) + Extent(b) >= paintRect[1]}

\* the blocks that start below the rectangle's bottom
Below == {b \in Walked : TopOf(b) > paintRect[2]}

\* C9: paintEvent draws a number for every visible line whose vertical extent
\* intersects the dirty rectangle and for no other line; the number is the
\* line's 1-based position in the document, also past hidden lines; the walk
\* ends at the first block that is invalid or starts below the rect's bottom.
C9_NumbersDrawnForIntersectingLines ==
    paintRect # NoRect =>
        /\ drawn = {<<b, TopOf(b)>> : b \in Intersecting}
        /\ walkEnd = IF Below = {} THEN InvalidBlock ELSE Least(Below)

\* line 3 was numbered 3 behind a hidden line 2, line 1 lying above the rect
C9_Witness ==
    /\ paintRect # NoRect
    /\ firstVisible = 1
    /\ blockVisible[1] /\ ~blockVisible[2] /\ blockVisible[3]
    /\ \E y \in 0..ViewHeight : drawn = {<<3, y>>}

\* ---------------------------------------------------------- specifications
\* the gutter and the painted document of an editor whose font and layout
\* are not under study
RestWidth == blockCount = 1 /\ glyphWidth = 1 /\ viewportMargin = width(1, 1)

RestPaint ==
    /\ InitPaint
    /\ blockHeight = [b \in PaintedBlocks |-> 1]

InitHighlighter == InitHL /\ InitBM /\ InitSyn /\ RestWidth /\ RestPaint

InitBookmarks == InitHL /\ InitBM /\ InitSyn /\ RestWidth /\ RestPaint

InitSyntax == InitHL /\ InitBM /\ InitSyn /\ RestWidth /\ RestPaint

InitGutterWidth == InitHL /\ InitBM /\ InitSyn /\ InitWidth /\ RestPaint

InitGutterPaint == InitHL /\ InitBM /\ InitSyn /\ RestWidth /\ InitPaint

SpecHL == InitHighlighter /\ [][NextHL]_vars

SpecBM == InitBookmarks /\ [][NextBM]_vars

SpecSyn == InitSyntax /\ [][NextSyn]_vars

SpecWidth == InitGutterWidth /\ [][NextWidth]_vars

SpecPaint == InitGutterPaint /\ [][NextPaint]_vars

====
